---- MODULE Spec2Model ----
(***************************************************************************)
(* A model of the emoji matching engine of src/src/utils/emojiMatcher.ts:  *)
(* predictEmojisForWord, predictEmojisForSentence, getEmojisByCategory and *)
(* cosineSimilarity, run against a small keyword database.                 *)
(*                                                                         *)
(* A string is a sequence of one-character strings.  A query is modelled   *)
(* step by step: every pass of the strategy cascade is one action, so the  *)
(* candidate list can be observed between the passes.                      *)
(***************************************************************************)
EXTENDS Integers, Sequences, FiniteSets

VARIABLES db, fn, text, text2, maxResults, pc, matches, seenEmojis, pos, ran, result

vars == <<db, fn, text, text2, maxResults, pc, matches, seenEmojis, pos, ran, result>>

(***************************************************************************)
(* Bounds of the model.                                                    *)
(***************************************************************************)
MaxWordLen == 3
MaxSentenceLen == 4
MaxCosineLen == 3
MaxRecords == 2
MaxN == 2

(***************************************************************************)
(* String primitives of JavaScript used by the matcher.                    *)
(***************************************************************************)
Min(a, b) == IF a <= b THEN a ELSE b

Abs(a) == IF a < 0 THEN -a ELSE a

LowerChar(c) == IF c = "A" THEN "a" ELSE IF c = "B" THEN "b" ELSE c

toLowerCase(s) == [i \in 1..Len(s) |-> LowerChar(s[i])]

IsSpace(c) == c = " "

RECURSIVE TrimStart(_)
TrimStart(s) ==
  IF s # <<>> /\ IsSpace(Head(s)) THEN TrimStart(Tail(s)) ELSE s

RECURSIVE TrimEnd(_)
TrimEnd(s) ==
  IF s # <<>> /\ IsSpace(s[Len(s)]) THEN TrimEnd(SubSeq(s, 1, Len(s) - 1)) ELSE s

trim(s) == TrimEnd(TrimStart(s))

\* s.split(/\s+/): the pieces between maximal runs of whitespace; a leading or
\* trailing run leaves an empty piece, and the empty string gives [""].
RECURSIVE SplitFrom(_, _, _)
SplitFrom(s, i, cur) ==
  IF i > Len(s) THEN <<cur>>
  ELSE IF IsSpace(s[i])
       THEN IF i > 1 /\ IsSpace(s[i - 1])
            THEN SplitFrom(s, i + 1, cur)
            ELSE <<cur>> \o SplitFrom(s, i + 1, <<>>)
       ELSE SplitFrom(s, i + 1, Append(cur, s[i]))

split(s) == SplitFrom(s, 1, <<>>)

startsWith(s, p) == Len(p) <= Len(s) /\ SubSeq(s, 1, Len(p)) = p

includes(s, p) ==
  \E i \in 0..(Len(s) - Len(p)) : SubSeq(s, i + 1, i + Len(p)) = p

\* Mutation of slice: the truncation is left out.
sliceAll(s, n) == s

\* Array.prototype.slice(0, n) for an integer n >= 0.
slice(s, n) == SubSeq(s, 1, Min(n, Len(s)))

(***************************************************************************)
(* levenshteinDistance: the matrix is filled row by row; row i holds       *)
(* matrix[i][0..len(str1)] as a sequence indexed from 1.                   *)
(***************************************************************************)
RECURSIVE LevRow(_, _, _, _, _)
LevRow(prev, str1, ch, i, row) ==
  LET j == Len(row) IN
  IF j > Len(str1) THEN row
  ELSE LET cell == IF ch = str1[j]
                   THEN prev[j]
                   ELSE Min(prev[j] + 1, Min(row[j] + 1, prev[j + 1] + 1))
       IN LevRow(prev, str1, ch, i, Append(row, cell))

RECURSIVE LevRows(_, _, _, _)
LevRows(prev, str1, str2, i) ==
  IF i > Len(str2) THEN prev
  ELSE LevRows(LevRow(prev, str1, str2[i], i, <<i>>), str1, str2, i + 1)

levenshteinDistance(str1, str2) ==
  LevRows([j \in 1..(Len(str1) + 1) |-> j - 1], str1, str2, 1)[Len(str1) + 1]

(***************************************************************************)
(* The knowledge base.  A record is [emoji, keywords, category]; the       *)
(* keyword index maps each lowercased keyword, in order of first           *)
(* appearance, to the symbols that declare it (each once, in record        *)
(* order).                                                                 *)
(***************************************************************************)
RecordPool ==
  { [emoji |-> "e1", keywords |-> << <<"a","b">>, <<"a","b","b">> >>, category |-> "c1"],
    [emoji |-> "e2", keywords |-> << <<"b","a","b">>, <<"a"," ","b">> >>, category |-> "c2"],
    [emoji |-> "e3", keywords |-> << <<"a","b","b">>, <<"b","b","a","b","a","a">> >>,
     category |-> "c1"],
    [emoji |-> "e3", keywords |-> << <<"a">>, <<"a","b","b","b","b","b","b","b","b","b","b","b","b">> >>,
     category |-> "c2"] }

\* The databases of the model: up to MaxRecords different records of the pool, in
\* any order.  Two records of the pool carry the same symbol.
DatabasesUpTo(size) ==
  UNION { { d \in [1..n -> RecordPool] : \A i, j \in 1..n : d[i] = d[j] => i = j } :
          n \in 1..size }

Databases == DatabasesUpTo(MaxRecords)

Categories == {"c1", "c2", "c3"}

Alphabet == {"a", "B", " "}

Strings(n) == UNION { [1..k -> Alphabet] : k \in 0..n }

RECURSIVE IndexFind(_, _, _)
IndexFind(idx, keyword, i) ==
  IF i > Len(idx) THEN 0
  ELSE IF idx[i].keyword = keyword THEN i
  ELSE IndexFind(idx, keyword, i + 1)

IndexAdd(idx, keyword, emoji) ==
  LET i == IndexFind(idx, keyword, 1) IN
  IF i = 0 THEN Append(idx, [keyword |-> keyword, emojis |-> <<emoji>>])
  ELSE IF \E k \in 1..Len(idx[i].emojis) : idx[i].emojis[k] = emoji THEN idx
  ELSE [idx EXCEPT ![i].emojis = Append(@, emoji)]

RECURSIVE IndexRecord(_, _, _)
IndexRecord(idx, data, k) ==
  IF k > Len(data.keywords) THEN idx
  ELSE IndexRecord(IndexAdd(idx, toLowerCase(data.keywords[k]), data.emoji), data, k + 1)

RECURSIVE BuildIndex(_, _, _)
BuildIndex(idx, database, r) ==
  IF r > Len(database) THEN idx
  ELSE BuildIndex(IndexRecord(idx, database[r], 1), database, r + 1)

emojiKeywordIndex(database) == BuildIndex(<<>>, database, 1)

\* emojiKeywordIndex.has(k) / .get(k)
IndexHas(idx, keyword) == IndexFind(idx, keyword, 1) # 0

IndexGet(idx, keyword) == idx[IndexFind(idx, keyword, 1)].emojis

(***************************************************************************)
(* predictEmojisForWord.  A candidate state is [matches, seen]: the list   *)
(* of EmojiMatch records and the seenEmojis set.                           *)
(***************************************************************************)
NoMatches == [matches |-> <<>>, seen |-> {}]

\* Mutation of Claim: the seenEmojis check is left out.
RECURSIVE ClaimUnchecked(_, _, _, _, _)
ClaimUnchecked(st, emojis, score, matchType, k) ==
  IF k > Len(emojis) THEN st
  ELSE ClaimUnchecked([matches |-> Append(st.matches,
                                          [emoji |-> emojis[k], score |-> score,
                                           matchType |-> matchType]),
                       seen |-> st.seen \cup {emojis[k]}],
                      emojis, score, matchType, k + 1)

\* emojis.forEach(emoji => { if (!seenEmojis.has(emoji)) { push; add } })
RECURSIVE Claim(_, _, _, _, _)
Claim(st, emojis, score, matchType, k) ==
  IF k > Len(emojis) THEN st
  ELSE LET emoji == emojis[k] IN
       IF emoji \in st.seen
       THEN Claim(st, emojis, score, matchType, k + 1)
       ELSE Claim([matches |-> Append(st.matches,
                                      [emoji |-> emoji, score |-> score, matchType |-> matchType]),
                   seen |-> st.seen \cup {emoji}],
                  emojis, score, matchType, k + 1)

\* Mutation of ExactPass: an exact match scores 10.
ExactPassLow(st, idx, w) ==
  IF IndexHas(idx, w) THEN Claim(st, IndexGet(idx, w), 10, "exact", 1) ELSE st

ExactPass(st, idx, w) ==
  IF IndexHas(idx, w) THEN Claim(st, IndexGet(idx, w), 100, "exact", 1) ELSE st

\* Mutation of PrefixScore: the length penalty is added.
PrefixScoreSignFlipped(keyword, w) == 90 + (Len(keyword) - Len(w)) * 2

PrefixScore(keyword, w) == 90 - (Len(keyword) - Len(w)) * 2

RECURSIVE PrefixScan(_, _, _, _)
PrefixScan(st, idx, w, i) ==
  IF i > Len(idx) THEN st
  ELSE LET keyword == idx[i].keyword IN
       IF startsWith(keyword, w) /\ keyword # w
       THEN PrefixScan(Claim(st, idx[i].emojis, PrefixScore(keyword, w), "prefix", 1),
                       idx, w, i + 1)
       ELSE PrefixScan(st, idx, w, i + 1)

PrefixPass(st, idx, w) == PrefixScan(st, idx, w, 1)

FuzzyScore(distance) == 80 - (distance * 10)

\* Mutation of FuzzyScan: only keywords of the word's own length are compared.
RECURSIVE FuzzyScanSameLength(_, _, _, _)
FuzzyScanSameLength(st, idx, w, i) ==
  IF i > Len(idx) THEN st
  ELSE LET keyword == idx[i].keyword IN
       IF Abs(Len(keyword) - Len(w)) <= 0 /\ levenshteinDistance(w, keyword) <= 2
       THEN FuzzyScanSameLength(Claim(st, idx[i].emojis,
                                      FuzzyScore(levenshteinDistance(w, keyword)), "fuzzy", 1),
                                idx, w, i + 1)
       ELSE FuzzyScanSameLength(st, idx, w, i + 1)

RECURSIVE FuzzyScan(_, _, _, _)
FuzzyScan(st, idx, w, i) ==
  IF i > Len(idx) THEN st
  ELSE LET keyword == idx[i].keyword IN
       IF Abs(Len(keyword) - Len(w)) <= 2 /\ levenshteinDistance(w, keyword) <= 2
       THEN FuzzyScan(Claim(st, idx[i].emojis,
                            FuzzyScore(levenshteinDistance(w, keyword)), "fuzzy", 1),
                      idx, w, i + 1)
       ELSE FuzzyScan(st, idx, w, i + 1)

FuzzyGate(st, n) == Len(st.matches) < n

FuzzyPass(st, idx, w, n) == IF FuzzyGate(st, n) THEN FuzzyScan(st, idx, w, 1) ELSE st

RECURSIVE SemanticScan(_, _, _, _)
SemanticScan(st, idx, w, i) ==
  IF i > Len(idx) THEN st
  ELSE LET keyword == idx[i].keyword IN
       IF includes(keyword, w) /\ keyword # w
       THEN SemanticScan(Claim(st, idx[i].emojis, 70, "semantic", 1), idx, w, i + 1)
       ELSE SemanticScan(st, idx, w, i + 1)

SemanticGate(st, w, n) == Len(st.matches) < n /\ Len(w) >= 3

SemanticPass(st, idx, w, n) ==
  IF SemanticGate(st, w, n) THEN SemanticScan(st, idx, w, 1) ELSE st

\* Mutation of InsertByScore: a candidate goes ahead of those of equal score.
RECURSIVE InsertByScoreUnstable(_, _)
InsertByScoreUnstable(sorted, m) ==
  IF sorted = <<>> THEN <<m>>
  ELSE IF Head(sorted).score > m.score
       THEN <<Head(sorted)>> \o InsertByScoreUnstable(Tail(sorted), m)
       ELSE <<m>> \o sorted

\* matches.sort((a, b) => b.score - a.score): a stable sort by descending score.
RECURSIVE InsertByScore(_, _)
InsertByScore(sorted, m) ==
  IF sorted = <<>> THEN <<m>>
  ELSE IF Head(sorted).score >= m.score
       THEN <<Head(sorted)>> \o InsertByScore(Tail(sorted), m)
       ELSE <<m>> \o sorted

RECURSIVE SortFrom(_, _, _)
SortFrom(sorted, ms, k) ==
  IF k > Len(ms) THEN sorted
  ELSE SortFrom(InsertByScore(sorted, ms[k]), ms, k + 1)

SortByScore(ms) == SortFrom(<<>>, ms, 1)

Emojis(ms) == [k \in 1..Len(ms) |-> ms[k].emoji]

TopEmojis(ms, n) == Emojis(slice(SortByScore(ms), n))

WordRejected(word) == word = <<>> \/ Len(word) < 2

normalize(s) == trim(toLowerCase(s))

predictEmojisForWord(idx, word, n) ==
  IF WordRejected(word) THEN <<>>
  ELSE LET w == normalize(word)
           s1 == ExactPass(NoMatches, idx, w)
           s2 == PrefixPass(s1, idx, w)
           s3 == FuzzyPass(s2, idx, w, n)
           s4 == SemanticPass(s3, idx, w, n)
       IN TopEmojis(s4.matches, n)

(***************************************************************************)
(* cosineSimilarity.  A similarity, and every score of a sentence query,   *)
(* is a fixed-point number in units of 1/Scale: the quotient               *)
(* dot / (magnitude1 * magnitude2) is rounded down to a multiple of        *)
(* 1/Scale, where the code rounds to a double.                             *)
(***************************************************************************)
Scale == 1000

Count(ws, word) == Cardinality({k \in 1..Len(ws) : ws[k] = word})

\* new Set([...words1, ...words2]), in insertion order
RECURSIVE Distinct(_, _, _)
Distinct(ws, k, acc) ==
  IF k > Len(ws) THEN acc
  ELSE IF \E j \in 1..Len(acc) : acc[j] = ws[k]
       THEN Distinct(ws, k + 1, acc)
       ELSE Distinct(ws, k + 1, Append(acc, ws[k]))

Vector(allWords, ws) == [k \in 1..Len(allWords) |-> Count(ws, allWords[k])]

RECURSIVE DotFrom(_, _, _)
DotFrom(v1, v2, k) ==
  IF k > Len(v1) THEN 0 ELSE v1[k] * v2[k] + DotFrom(v1, v2, k + 1)

\* The largest q in lo..hi with q * q * den <= num * num * Scale * Scale,
\* that is num / sqrt(den) in units of 1/Scale, rounded down.
RECURSIVE QuotientIn(_, _, _, _)
QuotientIn(num, den, lo, hi) ==
  IF lo >= hi THEN lo
  ELSE LET mid == (lo + hi + 1) \div 2 IN
       IF mid * mid * den <= num * num * Scale * Scale
       THEN QuotientIn(num, den, mid, hi)
       ELSE QuotientIn(num, den, lo, mid - 1)

\* Mutation of cosineSimilarity: the vocabulary is that of str1 alone.
cosineSimilarityOwnWords(str1, str2) ==
  LET words1 == split(toLowerCase(str1))
      words2 == split(toLowerCase(str2))
      allWords == Distinct(words1, 1, <<>>)
      vector1 == Vector(allWords, words1)
      vector2 == Vector(allWords, words2)
      dotProduct == DotFrom(vector1, vector2, 1)
      squares1 == DotFrom(vector1, vector1, 1)
      squares2 == DotFrom(vector2, vector2, 1)
  IN IF squares1 = 0 \/ squares2 = 0 THEN 0
     ELSE QuotientIn(dotProduct, squares1 * squares2, 0, Scale)

cosineSimilarity(str1, str2) ==
  LET words1 == split(toLowerCase(str1))
      words2 == split(toLowerCase(str2))
      allWords == Distinct(words1 \o words2, 1, <<>>)
      vector1 == Vector(allWords, words1)
      vector2 == Vector(allWords, words2)
      dotProduct == DotFrom(vector1, vector2, 1)
      squares1 == DotFrom(vector1, vector1, 1)
      squares2 == DotFrom(vector2, vector2, 1)
  IN IF squares1 = 0 \/ squares2 = 0 THEN 0
     ELSE QuotientIn(dotProduct, squares1 * squares2, 0, Scale)

(***************************************************************************)
(* predictEmojisForSentence.                                               *)
(***************************************************************************)
SentenceRejected(sentence) == sentence = <<>> \/ Len(trim(sentence)) = 0

\* Mutation of SentenceWord: the symbols of a word are claimed at 70.
SentenceWordLow(st, idx, word) ==
  Claim(st, predictEmojisForWord(idx, word, 3), 70 * Scale, "exact", 1)

\* One iteration of words.forEach: the per-word matcher, capped at 3, claims at 90.
SentenceWord(st, idx, word) ==
  Claim(st, predictEmojisForWord(idx, word, 3), 90 * Scale, "exact", 1)

\* data.keywords.forEach: [score, matchedKeywords] after the keywords from k on.
RECURSIVE KeywordScore(_, _, _, _)
KeywordScore(acc, keywords, ns, k) ==
  IF k > Len(keywords) THEN acc
  ELSE LET keywordLower == toLowerCase(keywords[k])
           similarity == cosineSimilarity(ns, keywordLower)
       IN IF includes(ns, keywordLower)
          THEN KeywordScore([score |-> acc.score + 80 * Scale,
                             matchedKeywords |-> acc.matchedKeywords + 1],
                            keywords, ns, k + 1)
          ELSE IF similarity * 10 > 3 * Scale
               THEN KeywordScore([score |-> acc.score + similarity * 60,
                                  matchedKeywords |-> acc.matchedKeywords + 1],
                                 keywords, ns, k + 1)
               ELSE KeywordScore(acc, keywords, ns, k + 1)

\* One iteration of emojiDatabase.forEach.
SentenceRecord(st, data, ns) ==
  LET acc == KeywordScore([score |-> 0, matchedKeywords |-> 0], data.keywords, ns, 1) IN
  IF acc.matchedKeywords > 0 /\ data.emoji \notin st.seen
  THEN [matches |-> Append(st.matches,
                           [emoji |-> data.emoji,
                            score |-> acc.score \div acc.matchedKeywords,
                            matchType |-> "semantic"]),
        seen |-> st.seen \cup {data.emoji}]
  ELSE st

(***************************************************************************)
(* getEmojisByCategory.                                                    *)
(***************************************************************************)
\* Mutation of getEmojisByCategory: the slice is taken before the filter.
getEmojisByCategorySliceFirst(database, category, limit) ==
  Emojis(SelectSeq(slice(database, limit), LAMBDA data : data.category = category))

getEmojisByCategory(database, category, limit) ==
  Emojis(slice(SelectSeq(database, LAMBDA data : data.category = category), limit))

(***************************************************************************)
(* The queries as state machines.  db is the knowledge base, fixed when    *)
(* the module is loaded; fn, text, text2 and maxResults are the call and   *)
(* its arguments; matches and seenEmojis are the locals of the query; pos  *)
(* is the loop position of a sentence query; ran records the gated passes  *)
(* that scanned the index; result is the returned value.                   *)
(***************************************************************************)
index == emojiKeywordIndex(db)

normalizedWord == normalize(text)

normalizedSentence == normalize(text)

words == split(normalizedSentence)

State == [matches |-> matches, seen |-> seenEmojis]

NoResult == <<"none">>

InitCall ==
  /\ db \in Databases
  /\ pc = "start"
  /\ matches = <<>>
  /\ seenEmojis = {}
  /\ pos = 0
  /\ ran = {}
  /\ result = NoResult

Init ==
  /\ InitCall
  /\ maxResults \in 0..MaxN
  /\ text2 = <<>>
  /\ \/ fn = "word" /\ text \in Strings(MaxWordLen)
     \/ fn = "sentence" /\ text \in Strings(MaxSentenceLen)

Apply(st) ==
  /\ matches' = st.matches
  /\ seenEmojis' = st.seen

WordStart ==
  /\ fn = "word" /\ pc = "start"
  /\ IF WordRejected(text)
     THEN pc' = "done" /\ result' = <<>>
     ELSE pc' = "exact" /\ result' = result
  /\ UNCHANGED <<db, fn, text, text2, maxResults, matches, seenEmojis, pos, ran>>

WordExact ==
  /\ fn = "word" /\ pc = "exact"
  /\ Apply(ExactPass(State, index, normalizedWord))
  /\ pc' = "prefix"
  /\ UNCHANGED <<db, fn, text, text2, maxResults, pos, ran, result>>

WordPrefix ==
  /\ fn = "word" /\ pc = "prefix"
  /\ Apply(PrefixPass(State, index, normalizedWord))
  /\ pc' = "fuzzy"
  /\ UNCHANGED <<db, fn, text, text2, maxResults, pos, ran, result>>

WordFuzzy ==
  /\ fn = "word" /\ pc = "fuzzy"
  /\ Apply(FuzzyPass(State, index, normalizedWord, maxResults))
  /\ ran' = IF FuzzyGate(State, maxResults) THEN ran \cup {"fuzzy"} ELSE ran
  /\ pc' = "semantic"
  /\ UNCHANGED <<db, fn, text, text2, maxResults, pos, result>>

WordSemantic ==
  /\ fn = "word" /\ pc = "semantic"
  /\ Apply(SemanticPass(State, index, normalizedWord, maxResults))
  /\ ran' = IF SemanticGate(State, normalizedWord, maxResults)
            THEN ran \cup {"semantic"} ELSE ran
  /\ pc' = "sort"
  /\ UNCHANGED <<db, fn, text, text2, maxResults, pos, result>>

\* The sort is in place; the slice and the map build the returned array.
Return ==
  /\ fn \in {"word", "sentence"} /\ pc = "sort"
  /\ matches' = SortByScore(matches)
  /\ result' = TopEmojis(matches, maxResults)
  /\ pc' = "done"
  /\ UNCHANGED <<db, fn, text, text2, maxResults, seenEmojis, pos, ran>>

SentenceStart ==
  /\ fn = "sentence" /\ pc = "start"
  /\ IF SentenceRejected(text)
     THEN pc' = "done" /\ result' = <<>> /\ pos' = pos
     ELSE pc' = "words" /\ result' = result /\ pos' = 1
  /\ UNCHANGED <<db, fn, text, text2, maxResults, matches, seenEmojis, ran>>

SentenceWordStep ==
  /\ fn = "sentence" /\ pc = "words"
  /\ Apply(SentenceWord(State, index, words[pos]))
  /\ IF pos < Len(words)
     THEN pc' = pc /\ pos' = pos + 1
     ELSE pc' = "records" /\ pos' = 1
  /\ UNCHANGED <<db, fn, text, text2, maxResults, ran, result>>

SentenceRecordStep ==
  /\ fn = "sentence" /\ pc = "records"
  /\ Apply(SentenceRecord(State, db[pos], normalizedSentence))
  /\ IF pos < Len(db)
     THEN pc' = pc /\ pos' = pos + 1
     ELSE pc' = "sort" /\ pos' = pos
  /\ UNCHANGED <<db, fn, text, text2, maxResults, ran, result>>

Next ==
  \/ WordStart
  \/ WordExact
  \/ WordPrefix
  \/ WordFuzzy
  \/ WordSemantic
  \/ SentenceStart
  \/ SentenceWordStep
  \/ SentenceRecordStep
  \/ Return

Spec == Init /\ [][Next]_vars

(***************************************************************************)
(* getEmojisByCategory and cosineSimilarity are single expressions: one    *)
(* action applies each to its arguments.                                   *)
(***************************************************************************)
\* The accessor is cheap: it is run on databases of one more record.
InitCategory ==
  /\ db \in DatabasesUpTo(MaxRecords + 1)
  /\ pc = "start"
  /\ matches = <<>>
  /\ seenEmojis = {}
  /\ pos = 0
  /\ ran = {}
  /\ result = NoResult
  /\ fn = "category"
  /\ text \in Categories
  /\ text2 = <<>>
  /\ maxResults \in 0..(MaxRecords + 2)

CategoryCall ==
  /\ fn = "category" /\ pc = "start"
  /\ result' = getEmojisByCategory(db, text, maxResults)
  /\ pc' = "done"
  /\ UNCHANGED <<db, fn, text, text2, maxResults, matches, seenEmojis, pos, ran>>

SpecCategory == InitCategory /\ [][CategoryCall]_vars

InitCosine ==
  /\ InitCall
  /\ Len(db) = 1
  /\ fn = "cosine"
  /\ text \in Strings(MaxCosineLen)
  /\ text2 \in Strings(MaxCosineLen)
  /\ maxResults = 0

CosineCall ==
  /\ fn = "cosine" /\ pc = "start"
  /\ result' = <<cosineSimilarity(text, text2), cosineSimilarity(text2, text)>>
  /\ pc' = "done"
  /\ UNCHANGED <<db, fn, text, text2, maxResults, matches, seenEmojis, pos, ran>>

SpecCosine == InitCosine /\ [][CosineCall]_vars

(***************************************************************************)
(* Properties.                                                             *)
(***************************************************************************)
Range(seq) == {seq[k] : k \in 1..Len(seq)}

NoRepeat(seq) == \A i, j \in 1..Len(seq) : seq[i] = seq[j] => i = j

IsQuery == fn \in {"word", "sentence"}

WordDone == fn = "word" /\ pc = "done"

SentenceDone == fn = "sentence" /\ pc = "done"

\* C1: predictEmojisForWord returns the empty sequence, with no candidate ever
\* scored, for every word that has fewer than 2 characters once trimmed.
C1_ShortWordRejected ==
  (WordDone /\ Len(trim(text)) < 2) => (result = <<>> /\ matches = <<>>)

\* C2: the sequence returned by a word or a sentence query has at most
\* maxResults elements, for every maxResults >= 0.
C2_Cap == (IsQuery /\ pc = "done") => Len(result) <= maxResults

C2_Witness ==
  /\ SentenceDone
  /\ maxResults > 0
  /\ Len(matches) > maxResults
  /\ Len(result) = maxResults

ScanMatched ==
  { r \in 1..Len(db) :
      KeywordScore([score |-> 0, matchedKeywords |-> 0],
                   db[r].keywords, normalizedSentence, 1).matchedKeywords > 0 }

\* the symbols the per-word matcher returns for some word of the sentence
Phase1Symbols ==
  UNION { Range(predictEmojisForWord(index, words[k], 3)) : k \in 1..Len(words) }

RankOf(c, i) ==
  1 + Cardinality({ j \in 1..Len(c) :
                      \/ c[j].score > c[i].score
                      \/ c[j].score = c[i].score /\ j < i })

IsTopRanked(c, out, n) ==
  /\ Len(out) = Min(n, Len(c))
  /\ \A i \in 1..Len(c) : RankOf(c, i) <= n => out[RankOf(c, i)] = c[i].emoji

\* the index entries a pass of the cascade matches, none when its gate is closed
PassMatching(passPc) ==
  LET w == normalizedWord
      open == Len(matches) < maxResults
  IN CASE passPc = "exact" -> { i \in 1..Len(index) : index[i].keyword = w }
       [] passPc = "prefix" ->
            { i \in 1..Len(index) : startsWith(index[i].keyword, w) /\ index[i].keyword # w }
       [] passPc = "fuzzy" ->
            { i \in 1..Len(index) : open /\ levenshteinDistance(w, index[i].keyword) <= 2 }
       [] passPc = "semantic" ->
            { i \in 1..Len(index) :
                open /\ Len(w) >= 3 /\ includes(index[i].keyword, w) /\ index[i].keyword # w }
       [] OTHER -> {}

\* the score a pass gives to the symbols of index entry i
PassScore(passPc, i) ==
  CASE passPc = "exact" -> 100
    [] passPc = "prefix" -> 90 - 2 * (Len(index[i].keyword) - Len(normalizedWord))
    [] passPc = "fuzzy" -> 80 - 10 * levenshteinDistance(normalizedWord, index[i].keyword)
    [] passPc = "semantic" -> 70
    [] OTHER -> 0

PositionIn(seq, e) == CHOOSE k \in 1..Len(seq) : seq[k] = e

\* A pass only appends to the candidate list: one candidate for every symbol of
\* a matched entry that was not claimed before, scored by the first matched
\* entry that holds it, in index iteration order.
PassAppends ==
  LET hit == PassMatching(pc)
      FirstEntry(e) ==
        CHOOSE i \in hit :
          /\ e \in Range(index[i].emojis)
          /\ \A j \in hit : e \in Range(index[j].emojis) => i <= j
      new == { e \in UNION { Range(index[i].emojis) : i \in hit } : e \notin seenEmojis }
      added == SubSeq(matches', Len(matches) + 1, Len(matches'))
  IN /\ Len(matches') >= Len(matches)
     /\ SubSeq(matches', 1, Len(matches)) = matches
     /\ Range(Emojis(added)) = new
     /\ Len(added) = Cardinality(new)
     /\ \A k \in 1..Len(added) :
          added[k].score = PassScore(pc, FirstEntry(added[k].emoji))
     /\ \A k, l \in 1..Len(added) :
          k < l =>
            LET ik == FirstEntry(added[k].emoji)
                il == FirstEntry(added[l].emoji)
            IN \/ ik < il
               \/ /\ ik = il
                  /\ PositionIn(index[ik].emojis, added[k].emoji)
                       < PositionIn(index[il].emojis, added[l].emoji)

\* C4: the output of predictEmojisForWord is the first maxResults symbols of the
\* candidate list in descending score order, ties in insertion order; the passes
\* run exact, prefix, fuzzy, semantic, each only appending candidates for symbols
\* not claimed before, so a symbol keeps the score of the first pass to reach it.
C4_RankedOutput ==
  [][fn = "word" =>
       /\ pc \in {"exact", "prefix", "fuzzy", "semantic"} => PassAppends
       /\ pc = "sort" => IsTopRanked(matches, result', maxResults)]_vars

\* the sort moved a candidate of a later pass ahead of one of an earlier pass
C4_Witness ==
  /\ WordDone
  /\ \E i, j \in 1..Len(result) :
       /\ i < j
       /\ matches[i].matchType = "semantic"
       /\ matches[j].matchType = "fuzzy"

ExactSymbols ==
  IF IndexHas(index, normalizedWord) THEN Range(IndexGet(index, normalizedWord)) ELSE {}

\* C5: when the normalized word is a keyword, no symbol that is not indexed under
\* it comes before one that is, and none is returned while one is left out.
C5_ExactFirst ==
  (WordDone /\ ~WordRejected(text)) =>
    /\ \A i, j \in 1..Len(result) :
         (result[i] \in ExactSymbols /\ result[j] \notin ExactSymbols) => i < j
    /\ (\E j \in 1..Len(result) : result[j] \notin ExactSymbols)
         => ExactSymbols \subseteq Range(result)

C5_Witness ==
  /\ WordDone
  /\ ExactSymbols # {}
  /\ Len(result) > 0
  /\ Len(matches) > maxResults
  /\ \E k \in 1..Len(matches) : matches[k].emoji \notin ExactSymbols

\* the symbols indexed under a keyword at edit distance 1 from the word
NearSymbols ==
  UNION { Range(index[i].emojis) :
            i \in { i \in 1..Len(index) :
                      levenshteinDistance(normalizedWord, index[i].keyword) = 1 } }

\* C6 as stated: a symbol indexed under a keyword at edit distance 1 from the
\* word is returned whenever the fuzzy pass ran.
C6_NearReturned ==
  (WordDone /\ "fuzzy" \in ran) => NearSymbols \subseteq Range(result)

\* C6: when the fuzzy pass runs, a symbol indexed under a keyword at edit
\* distance 1 from the word is in the candidate list from then on, and it is
\* returned when the query ends with at most maxResults candidates.
C6_NearClaimed ==
  (fn = "word" /\ "fuzzy" \in ran) =>
    /\ NearSymbols \subseteq Range(Emojis(matches))
    /\ (pc = "done" /\ Len(matches) <= maxResults) => NearSymbols \subseteq Range(result)

C6_Witness ==
  /\ WordDone
  /\ "fuzzy" \in ran
  /\ Len(matches) <= maxResults
  /\ \E k \in 1..Len(matches) :
       /\ matches[k].matchType = "fuzzy"
       /\ matches[k].score = 70
       /\ matches[k].emoji \in NearSymbols
       /\ matches[k].emoji \in Range(result)

\* the positions of the records of the category, in declaration order
InCategory == { r \in 1..Len(db) : db[r].category = text }

\* C7: getEmojisByCategory returns the symbols of the first limit records whose
\* category is the argument, in declaration order, and nothing else.
C7_Category ==
  (fn = "category" /\ pc = "done") =>
    /\ Len(result) = Min(maxResults, Cardinality(InCategory))
    /\ \A r \in InCategory :
         LET k == 1 + Cardinality({ q \in InCategory : q < r })
         IN k <= maxResults => result[k] = db[r].emoji

C7_Witness ==
  /\ fn = "category" /\ pc = "done"
  /\ maxResults > 0
  /\ Cardinality(InCategory) > maxResults
  /\ Len(result) = maxResults
  /\ Len(db) > Cardinality(InCategory)

\* C8: cosineSimilarity(a, b) = cosineSimilarity(b, a).
C8_Symmetric == (fn = "cosine" /\ pc = "done") => result[1] = result[2]

C8_Witness ==
  /\ fn = "cosine" /\ pc = "done"
  /\ split(toLowerCase(text)) = << <<>> >>
  /\ split(toLowerCase(text2)) # split(toLowerCase(text))
  /\ result[1] > 0 /\ result[1] < Scale

\* C9: in the output of predictEmojisForSentence every symbol the per-word
\* matcher returned for a word of the sentence comes before every other symbol,
\* and none of the others is returned while one of them is left out.
C9_WordsFirst ==
  (SentenceDone /\ ~SentenceRejected(text)) =>
    /\ \A i, j \in 1..Len(result) :
         (result[i] \in Phase1Symbols /\ result[j] \notin Phase1Symbols) => i < j
    /\ (\E j \in 1..Len(result) : result[j] \notin Phase1Symbols)
         => Phase1Symbols \subseteq Range(result)

C9_Witness ==
  /\ SentenceDone
  /\ \E i, j \in 1..Len(result) :
       result[i] \in Phase1Symbols /\ result[j] \notin Phase1Symbols

\* predictEmojisForWord with the prefix pass run only while fewer than n
\* candidates exist
predictEmojisForWordGated(idx, word, n) ==
  IF WordRejected(word) THEN <<>>
  ELSE LET w == normalize(word)
           s1 == ExactPass(NoMatches, idx, w)
           s2 == IF Len(s1.matches) < n THEN PrefixPass(s1, idx, w) ELSE s1
           s3 == FuzzyPass(s2, idx, w, n)
           s4 == SemanticPass(s3, idx, w, n)
       IN TopEmojis(s4.matches, n)

\* C10: gating the prefix pass on "fewer than maxResults candidates so far"
\* gives the same ordered output as the ungated code.
C10_GatedPrefixSame ==
  WordDone => result = predictEmojisForWordGated(index, text, maxResults)

\* the gate closes on a query whose prefix pass claims a symbol
C10_Witness ==
  /\ WordDone
  /\ ~WordRejected(text)
  /\ maxResults > 0
  /\ Len(ExactPass(NoMatches, index, normalizedWord).matches) >= maxResults
  /\ \E k \in 1..Len(matches) : matches[k].matchType = "prefix"

====
